---------------------------- MODULE Spec2Model ----------------------------
(***************************************************************************)
(* A model of packages/tailwindcss-language-service/src/util/find.ts:      *)
(* the two class-list tokenizers, the markup class-list locator, the      *)
(* style-sheet class-list locator and the helper-function locator.        *)
(*                                                                         *)
(* Strings are sequences of one-character strings.  A character that has  *)
(* no TLA+ escape is written by its code point name ("u2001" is U+2001).  *)
(* All indexes that the source uses are 0-based and are kept 0-based      *)
(* here; Substring and At translate to the 1-based sequences of TLA+.     *)
(***************************************************************************)
EXTENDS Integers, Sequences, FiniteSets, TLC

VARIABLES
  pc,                 \* which function is running, and where it stands
  classList,          \* DocumentClassList.classList (input of both tokenizers)
  blocklist,          \* State['blocklist'], as a set of strings
  range,              \* DocumentClassList.range (only range.start is read)
  idx,                \* loop index of getClassNamesAndVariantsInClassList
  searchingForStart,
  globalStack,
  globalStackLengths,
  localStack,
  classInfo,          \* the tokens pushed by pushClassInfo
  wordIndex,
  names,              \* the tokens returned by getClassNamesInClassList
  text,               \* getTextWithoutComments(doc, type, range)
  docRange,           \* the optional range argument: <<>> or <<range>>
  attributes,         \* tailwindCSS.classAttributes
  matches,            \* matchClassAttributes(text, attributes)
  m,                  \* index in matches of the forEach callback that runs
  lexed,              \* per token the lexer has yielded: was it taken as class list
  thrown,             \* the indexes in matches at which the lexer threw
  currentClassList,   \* <<>> (undefined) or <<[value, offset]>>
  classLists,
  result,
  semicolonless,      \* isSemicolonlessCssLanguage(lang ?? doc.languageId, ...)
  path,               \* let path of the findHelperFunctionsInRange callback
  quotesBefore        \* let quotesBefore of the same callback

tokVars == <<classList, blocklist, range, idx, searchingForStart, globalStack,
             globalStackLengths, localStack, classInfo, wordIndex, names>>

htmlVars == <<text, docRange, attributes, matches, m, lexed, thrown, currentClassList,
              classLists, result>>

locVars == <<semicolonless, path, quotesBefore>>

vars == <<pc, tokVars, htmlVars, locVars>>

---------------------------------------------------------------------------
(* Bounds of the model *)

\* longest class-list string enumerated exhaustively
MaxLen == 4

\* longest attribute value enumerated exhaustively
MaxValue == 3

\* most tokens the lexer yields for one attribute: with more text than that
\* left it throws, with less it may reach the end
MaxLexed == 5

\* longest text after @apply and its space enumerated exhaustively
MaxBody == 4

\* longest helper-function argument enumerated exhaustively
MaxArg == 4

---------------------------------------------------------------------------
(* JavaScript string primitives *)

Min(a, b) == IF a < b THEN a ELSE b
Max(a, b) == IF a > b THEN a ELSE b

\* s[i], 0-based
At(s, i) == s[i + 1]

\* String.prototype.substring(from, to): both ends clamped to [0, length],
\* swapped when from > to
Substring(s, from, to) ==
  LET f == Max(0, Min(from, Len(s)))
      t == Max(0, Min(to, Len(s)))
  IN  SubSeq(s, Min(f, t) + 1, Max(f, t))

\* all strings over alphabet S of length at most n
Strings(S, n) == UNION { [1..k -> S] : k \in 0..n }

RECURSIVE SumSeq(_)
SumSeq(s) == IF s = <<>> THEN 0 ELSE Head(s) + SumSeq(Tail(s))

RECURSIVE Flatten(_)
Flatten(ss) == IF ss = <<>> THEN <<>> ELSE Head(ss) \o Flatten(Tail(ss))

---------------------------------------------------------------------------
(* Character classes *)

\* the set SEPARATOR_CHARS
SEPARATOR_CHARS ==
  {" ", "\n", "\t", "\r", "\f", "u000b", "u00a0", "u1680", "u2000", "u200a",
   "u2028", "u2029", "u202f", "u205f", "u3000", "ufeff"}

\* what \s matches in a JavaScript regular expression: WhiteSpace and
\* LineTerminator, i.e. \t \n \v \f \r, space, U+00A0, U+1680,
\* U+2000..U+200A, U+2028, U+2029, U+202F, U+205F, U+3000, U+FEFF
RegexWhitespace ==
  {" ", "\n", "\t", "\r", "\f", "u000b", "u00a0", "u1680",
   "u2000", "u2001", "u2002", "u2003", "u2004", "u2005", "u2006", "u2007",
   "u2008", "u2009", "u200a",
   "u2028", "u2029", "u202f", "u205f", "u3000", "ufeff"}

---------------------------------------------------------------------------
(* indexToPosition *)

\* number of "\n" among the first n characters of s
RECURSIVE NewlinesBefore(_, _)
NewlinesBefore(s, n) ==
  IF n <= 0 THEN 0
  ELSE NewlinesBefore(s, n - 1) + (IF At(s, n - 1) = "\n" THEN 1 ELSE 0)

\* index of the first character of the line that holds index n
RECURSIVE LineStartBefore(_, _)
LineStartBefore(s, n) ==
  IF n <= 0 THEN 0
  ELSE IF At(s, n - 1) = "\n" THEN n
  ELSE LineStartBefore(s, n - 1)

\* a bug the position conversion could have: the column is counted from the
\* start of the string on every line
IndexToPositionFlat(str, index) ==
  LET s == str \o <<"\n">>
  IN  IF index < 0 \/ index >= Len(s)
      THEN [line |-> 0, character |-> 0]
      ELSE [line |-> NewlinesBefore(s, index), character |-> index]

\* lineColumn(str + '\n').fromIndex(index) ?? { line: 1, col: 1 }, made 0-based.
\* fromIndex returns null for index < 0 and index >= length; otherwise the
\* line is the number of "\n" before index and col the distance to the start
\* of that line.
IndexToPosition(str, index) ==
  LET s == str \o <<"\n">>
  IN  IF index < 0 \/ index >= Len(s)
      THEN [line |-> 0, character |-> 0]
      ELSE [line      |-> NewlinesBefore(s, index),
            character |-> index - LineStartBefore(s, index)]

\* the range literal of lines 56-65, 127-136, 232-241 and 363-372: a local
\* range lifted into the frame of an enclosing range that starts at
\* enclosingStart
LiftRange(enclosingStart, start, end) ==
  [start |-> [line      |-> enclosingStart.line + start.line,
              character |-> (IF end.line = 0 THEN enclosingStart.character ELSE 0)
                              + start.character],
   end   |-> [line      |-> enclosingStart.line + end.line,
              character |-> (IF end.line = 0 THEN enclosingStart.character ELSE 0)
                              + end.character]]

---------------------------------------------------------------------------
(* getClassNamesInClassList *)

\* length of the longest prefix of s whose characters are all in S (inS) or
\* all outside S (~inS)
RECURSIVE RunLength(_, _, _)
RunLength(s, S, inS) ==
  IF s = <<>> \/ ((Head(s) \in S) # inS) THEN 0
  ELSE 1 + RunLength(Tail(s), S, inS)

\* classList.split(/(\s+)/): words at the even indexes, the whitespace runs
\* that separate them at the odd ones; a string that starts or ends with
\* whitespace gets an empty first or last word
RECURSIVE SplitWhitespace(_)
SplitWhitespace(s) ==
  LET w    == RunLength(s, RegexWhitespace, FALSE)
      rest == SubSeq(s, w + 1, Len(s))
      r    == RunLength(rest, RegexWhitespace, TRUE)
  IN  IF rest = <<>> THEN << SubSeq(s, 1, w) >>
      ELSE << SubSeq(s, 1, w), SubSeq(rest, 1, r) >>
             \o SplitWhitespace(SubSeq(rest, r + 1, Len(rest)))

\* a bug the blocklist test could have: it is left out, as it was before the
\* tokenizers took a blocklist
BlockedNever(list, name) == FALSE

\* blocklist.includes(name)
Blocked(list, name) == name \in list

\* the loop of lines 41-69, from part i on, index being the offset of part i
RECURSIVE NamesFrom(_, _, _, _, _, _)
NamesFrom(cl, rng, bl, parts, i, index) ==
  IF i > Len(parts) - 1 THEN <<>>
  ELSE
    LET part  == At(parts, i)
        start == IndexToPosition(cl, index)
        end   == IndexToPosition(cl, index + Len(part))
        here  == IF i % 2 = 0 /\ ~Blocked(bl, part)
                 THEN << [className     |-> part,
                          relativeRange |-> [start |-> start, end |-> end],
                          range         |-> LiftRange(rng.start, start, end)] >>
                 ELSE <<>>
    IN  here \o NamesFrom(cl, rng, bl, parts, i + 1, index + Len(part))

GetClassNamesInClassList(cl, rng, bl) ==
  NamesFrom(cl, rng, bl, SplitWhitespace(cl), 0, 0)

---------------------------------------------------------------------------
(* getClassNamesAndVariantsInClassList *)

\* localStack.reduce((acc, item) => acc + item.length + 1, 0)
LocalStackOffset(stack) ==
  SumSeq([k \in 1..Len(stack) |-> Len(stack[k]) + 1])

\* the token pushClassInfo(at) builds
ClassInfoAt(at) ==
  LET className == Substring(classList, wordIndex, at)
      start == IndexToPosition(classList,
                 at - Len(className) - LocalStackOffset(localStack))
      end   == IndexToPosition(classList, at)
  IN  [className     |-> className,
       variants      |-> globalStack \o localStack,
       relativeRange |-> [start |-> start, end |-> end],
       range         |-> LiftRange(range.start, start, end)]

\* pushClassInfo(at): classInfo afterwards
PushClassInfo(at) ==
  LET info == ClassInfoAt(at)
  IN  IF ~Blocked(blocklist, info.className)
      THEN Append(classInfo, info)
      ELSE classInfo

\* a bug the group pop could have: one entry is dropped whatever '(' pushed
ShrinkByOne(stack, lengths) ==
  IF lengths = <<>> THEN stack ELSE SubSeq(stack, 1, Len(stack) - 1)

\* const lastLength = globalStackLengths.pop()
\* if (lastLength) { globalStack.length -= lastLength }
\* (lengths is globalStackLengths before the pop; pop() of an empty array is
\* undefined and 0 is falsy, so both leave the stack alone)
ShrinkGlobalStack(stack, lengths) ==
  IF lengths = <<>> \/ lengths[Len(lengths)] = 0 THEN stack
  ELSE SubSeq(stack, 1, Len(stack) - lengths[Len(lengths)])

\* globalStack.length -= lastLength throws a RangeError when the new length
\* would be negative
ShrinkThrows(stack, lengths) ==
  /\ lengths # <<>>
  /\ lengths[Len(lengths)] > Len(stack)

Scanning == pc = "scan" /\ idx < Len(classList)

currentChar == At(classList, idx)

\* line 142: a separator ends the open word
StepSeparator ==
  /\ Scanning
  /\ ~searchingForStart /\ currentChar \in SEPARATOR_CHARS
  /\ classInfo' = PushClassInfo(idx)
  /\ localStack' = <<>>
  /\ searchingForStart' = TRUE
  /\ idx' = idx + 1
  /\ UNCHANGED <<pc, classList, blocklist, range, globalStack,
                 globalStackLengths, wordIndex, names, htmlVars, locVars>>

\* line 147: ':' turns the open word into a variant
StepColon ==
  /\ Scanning
  /\ ~(~searchingForStart /\ currentChar \in SEPARATOR_CHARS)
  /\ ~searchingForStart /\ currentChar = ":"
  /\ localStack' = Append(localStack, Substring(classList, wordIndex, idx))
  /\ searchingForStart' = TRUE
  /\ idx' = idx + 1
  /\ UNCHANGED <<pc, classList, blocklist, range, globalStack,
                 globalStackLengths, classInfo, wordIndex, names, htmlVars, locVars>>

\* line 151: '(' moves the pending variants to the global stack
StepOpenGroup ==
  /\ Scanning
  /\ ~(~searchingForStart /\ currentChar \in SEPARATOR_CHARS)
  /\ ~(~searchingForStart /\ currentChar = ":")
  /\ currentChar = "("
  /\ globalStack' = globalStack \o localStack
  /\ globalStackLengths' = Append(globalStackLengths, Len(localStack))
  /\ localStack' = <<>>
  /\ searchingForStart' = TRUE
  /\ idx' = idx + 1
  /\ UNCHANGED <<pc, classList, blocklist, range, classInfo, wordIndex, names, htmlVars, locVars>>

\* line 156: ')' ends the open word and closes the innermost group
StepCloseGroup ==
  /\ Scanning
  /\ ~(~searchingForStart /\ currentChar \in SEPARATOR_CHARS)
  /\ ~(~searchingForStart /\ currentChar = ":")
  /\ currentChar = ")"
  /\ classInfo' = IF ~searchingForStart THEN PushClassInfo(idx) ELSE classInfo
  /\ localStack' = <<>>
  /\ globalStackLengths' = SubSeq(globalStackLengths, 1, Len(globalStackLengths) - 1)
  /\ IF ShrinkThrows(globalStack, globalStackLengths)
     THEN /\ pc' = "threw"
          /\ UNCHANGED <<globalStack, searchingForStart, idx>>
     ELSE /\ globalStack' = ShrinkGlobalStack(globalStack, globalStackLengths)
          /\ searchingForStart' = TRUE
          /\ idx' = idx + 1
          /\ pc' = pc
  /\ UNCHANGED <<classList, blocklist, range, wordIndex, names, htmlVars, locVars>>

\* line 168: a character that is no separator opens a word
StepWordStart ==
  /\ Scanning
  /\ currentChar \notin {"(", ")"}
  /\ searchingForStart /\ currentChar \notin SEPARATOR_CHARS
  /\ wordIndex' = idx
  /\ searchingForStart' = FALSE
  /\ idx' = idx + 1
  /\ UNCHANGED <<pc, classList, blocklist, range, globalStack,
                 globalStackLengths, localStack, classInfo, names, htmlVars, locVars>>

\* line 171: a character inside a word, or a separator between words
StepContinue ==
  /\ Scanning
  /\ currentChar \notin {"(", ")"}
  /\ \/ ~searchingForStart /\ currentChar \notin SEPARATOR_CHARS \cup {":"}
     \/ searchingForStart /\ currentChar \in SEPARATOR_CHARS
  /\ idx' = idx + 1
  /\ UNCHANGED <<pc, classList, blocklist, range, searchingForStart, globalStack,
                 globalStackLengths, localStack, classInfo, wordIndex, names, htmlVars, locVars>>

\* lines 176-180: the word still open at the end of the input
ScanEnd ==
  /\ pc = "scan" /\ idx = Len(classList)
  /\ classInfo' = IF ~searchingForStart THEN PushClassInfo(Len(classList))
                  ELSE classInfo
  /\ pc' = "simple"
  /\ UNCHANGED <<classList, blocklist, range, idx, searchingForStart, globalStack,
                 globalStackLengths, localStack, wordIndex, names, htmlVars, locVars>>

\* a call of getClassNamesInClassList on the same class list
SimpleTokenize ==
  /\ pc = "simple"
  /\ names' = GetClassNamesInClassList(classList, range, blocklist)
  /\ pc' = "done"
  /\ UNCHANGED <<classList, blocklist, range, idx, searchingForStart, globalStack,
                 globalStackLengths, localStack, classInfo, wordIndex, htmlVars, locVars>>

---------------------------------------------------------------------------
(* matchClassAttributes *)

\* the 'i' flag: letters compare without case
FoldCase(c) == IF c = "C" THEN "c" ELSE c

\* whether the literal lit stands in s at index i, compared without case
LiteralAt(s, lit, i) ==
  /\ i + Len(lit) <= Len(s)
  /\ \A k \in 1..Len(lit) : FoldCase(At(s, i + k - 1)) = FoldCase(lit[k])

\* attributes.flatMap: each name a and the bracketed [a], the alternatives
\* of ATTRS
RECURSIVE AttributeAlternatives(_)
AttributeAlternatives(attrs) ==
  IF attrs = <<>> THEN <<>>
  ELSE << Head(attrs), <<"[">> \o Head(attrs) \o <<"]">> >>
         \o AttributeAlternatives(Tail(attrs))

\* the class of characters that ends the pattern: the single quote, the
\* double quote, the backtick and the opening brace
ValueOpeners == {"'", "\"", "backtick", "{"}

\* the length of the match of the pattern of line 278 at index i for one
\* alternative of ATTRS, or 0 when it does not match there: a whitespace,
\* ':' or '(', the name, \s*, '=', \s*, a value opener
AlternativeMatchLength(s, alt, i) ==
  IF ~(i < Len(s) /\ At(s, i) \in RegexWhitespace \cup {":", "("}) THEN 0
  ELSE IF ~LiteralAt(s, alt, i + 1) THEN 0
  ELSE LET afterName == i + 1 + Len(alt)
           eq == afterName
                   + RunLength(SubSeq(s, afterName + 1, Len(s)), RegexWhitespace, TRUE)
       IN  IF ~(eq < Len(s) /\ At(s, eq) = "=") THEN 0
           ELSE LET open == eq + 1
                              + RunLength(SubSeq(s, eq + 2, Len(s)), RegexWhitespace, TRUE)
                IN  IF open < Len(s) /\ At(s, open) \in ValueOpeners
                    THEN open + 1 - i
                    ELSE 0

\* the match at index i: the first alternative that matches, as
\* << [index, length of match[0], match[1]] >>, or <<>> for none
MatchAt(s, alts, i) ==
  IF \E k \in 1..Len(alts) : AlternativeMatchLength(s, alts[k], i) > 0
  THEN LET k == CHOOSE k \in 1..Len(alts) :
                  /\ AlternativeMatchLength(s, alts[k], i) > 0
                  /\ \A j \in 1..(k - 1) : AlternativeMatchLength(s, alts[j], i) = 0
       IN  << [index  |-> i,
               length |-> AlternativeMatchLength(s, alts[k], i),
               name   |-> Substring(s, i + 1, i + 1 + Len(alts[k]))] >>
  ELSE <<>>

\* findAll(re, text) with the 'g' flag: the leftmost match at or after
\* lastIndex, then on from its end
RECURSIVE FindAllFrom(_, _, _)
FindAllFrom(s, alts, from) ==
  IF from >= Len(s) THEN <<>>
  ELSE IF MatchAt(s, alts, from) = <<>> THEN FindAllFrom(s, alts, from + 1)
  ELSE LET found == MatchAt(s, alts, from)
       IN  found \o FindAllFrom(s, alts, from + found[1].length)

MatchClassAttributes(s, attrs) == FindAllFrom(s, AttributeAlternatives(attrs), 0)

---------------------------------------------------------------------------
(* findClassListsInHtmlRange *)

match == matches[m + 1]

\* match.index + match[0].length - 1: the index of the opening quote or brace
ValueIndex == match.index + match.length - 1

\* text.substr(match.index + match[0].length - 1)
subtext == SubSeq(text, ValueIndex + 1, Len(text))

\* The token types of the value tokenizer.  The lexers that lines 300-303
\* pick from are not part of find.ts; by the specification a lexer yields
\* {type, value, offset} tokens of type classlist, arbitrary or other over
\* the text it was reset with, and may throw.  Here every token is one
\* character of subtext, at the offset where the one before it ended, and
\* its type is the lexer's free choice.
TokenTypes == {"classlist", "arb", "other"}

\* token.type === 'classlist' || token.type.startsWith('arb')
IsClassListType(type) ==
  \/ type = "classlist"
  \/ (Len(type) >= 3 /\ SubSeq(type, 1, 3) = <<"a", "r", "b">>)

TypeChars(type) ==
  CASE type = "classlist" -> <<"c", "l", "a", "s", "s", "l", "i", "s", "t">>
    [] type = "arb"       -> <<"a", "r", "b">>
    [] OTHER              -> <<"o", "t", "h", "e", "r">>

\* the next token of the lexer, when it yields one of type type
NextToken(type) ==
  [type   |-> TypeChars(type),
   value  |-> <<At(subtext, Len(lexed))>>,
   offset |-> Len(lexed)]

\* (range?.start.line || 0, range?.start.character || 0)
RangeStartOrZero ==
  IF docRange = <<>> THEN [line |-> 0, character |-> 0]
  ELSE docRange[1].start

IsBlank(s) == \A k \in 1..Len(s) : s[k] \in RegexWhitespace

\* String.prototype.substr(start, length) for 0 <= start
Substr(s, start, length) ==
  SubSeq(s, start + 1, Min(Len(s), start + Max(0, length)))

\* value.match(/^\s*/)[0].length
BeforeOffset(value) == RunLength(value, RegexWhitespace, TRUE)

RECURSIVE Reverse(_)
Reverse(s) == IF s = <<>> THEN <<>> ELSE Append(Reverse(Tail(s)), Head(s))

\* -value.match(/\s*$/)[0].length
AfterOffset(value) == 0 - RunLength(Reverse(value), RegexWhitespace, TRUE)

\* lines 342-374: the span of one accumulated class list, <<>> for null
SpanOf(list) ==
  IF IsBlank(list.value) THEN <<>>
  ELSE LET value        == list.value
           beforeOffset == BeforeOffset(value)
           afterOffset  == AfterOffset(value)
           start == IndexToPosition(text, ValueIndex + list.offset + beforeOffset)
           end   == IndexToPosition(text,
                      ValueIndex + list.offset + Len(value) + afterOffset)
       IN  << [classList |-> Substr(value, beforeOffset, Len(value) + afterOffset),
               range     |-> LiftRange(RangeStartOrZero, start, end)] >>

\* .map(...).filter((x) => x !== null)
RECURSIVE SpansOf(_)
SpansOf(lists) ==
  IF lists = <<>> THEN <<>>
  ELSE SpanOf(Head(lists)) \o SpansOf(Tail(lists))

Lexing == pc = "lex" /\ Len(lexed) < Len(subtext) /\ Len(lexed) < MaxLexed

\* lines 312-320: the lexer yields a classlist or arb token
LexClassListToken ==
  /\ Lexing
  /\ \E type \in TokenTypes :
       LET token == NextToken(type)
       IN  /\ IsClassListType(token.type)
           /\ currentClassList' =
                IF currentClassList # <<>>
                THEN << [currentClassList[1] EXCEPT !.value = @ \o token.value] >>
                ELSE << [value |-> token.value, offset |-> token.offset] >>
  /\ lexed' = Append(lexed, TRUE)
  /\ UNCHANGED <<pc, tokVars, locVars, text, docRange, attributes, matches, m, thrown,
                 classLists, result>>

\* lines 321-329: the lexer yields a token of another type
LexOtherToken ==
  /\ Lexing
  /\ \E type \in TokenTypes : ~IsClassListType(NextToken(type).type)
  /\ lexed' = Append(lexed, FALSE)
  /\ classLists' = classLists \o currentClassList
  /\ currentClassList' = <<>>
  /\ UNCHANGED <<pc, tokVars, locVars, text, docRange, attributes, matches, m, thrown,
                 result>>

\* the lexer reaches the end of subtext: the for loop ends
LexEnd ==
  /\ pc = "lex" /\ Len(lexed) = Len(subtext)
  /\ pc' = "spans"
  /\ UNCHANGED <<tokVars, htmlVars, locVars>>

\* line 331: the lexer throws and the catch swallows it
LexThrow ==
  /\ pc = "lex"
  /\ thrown' = thrown \cup {m}
  /\ pc' = "spans"
  /\ UNCHANGED <<tokVars, locVars, text, docRange, attributes, matches, m, lexed,
                 currentClassList, classLists, result>>

\* a bug the recovery could have: the class list still open when the loop
\* ended or threw is dropped
AccumulatedClosedOnly == classLists

\* lines 333-338: classLists once the class list still open is pushed
AccumulatedClassLists == classLists \o currentClassList

\* lines 333-376, and the forEach going on to the next match
PushSpans ==
  /\ pc = "spans"
  /\ result' = result \o SpansOf(AccumulatedClassLists)
  /\ IF m + 1 < Len(matches)
     THEN pc' = "lex" /\ m' = m + 1
     ELSE pc' = "returned" /\ m' = m
  /\ lexed' = <<>>
  /\ currentClassList' = <<>>
  /\ classLists' = <<>>
  /\ UNCHANGED <<tokVars, locVars, text, docRange, attributes, matches, thrown>>

---------------------------------------------------------------------------
(* The markup locator's inputs *)

HtmlValueChars == {"a", " ", "\n"}

\* the range argument and what stands before the first attribute: a range
\* that starts inside a line with the attribute on its first line, or no
\* range and the attribute on the second line
RangeContexts ==
  { [range |-> << [start |-> [line |-> 1, character |-> 2]] >>, lead |-> <<>>],
    [range |-> <<>>, lead |-> <<"\n">>] }

\* the attribute in the forms the pattern accepts, and what follows its
\* value: nothing, a closing quote, or a closing quote and a second attribute
HtmlShapes ==
  { [attr |-> <<" ", "c", "=", "\"">>, tail |-> <<>>],
    [attr |-> <<":", "[", "C", "]", " ", "=", " ", "{">>, tail |-> <<"\"">>],
    [attr |-> <<" ", "c", "=", "\"">>,
     tail |-> <<"\"", "\n", "c", "=", "'", "b">>] }

HtmlIdle ==
  /\ text = <<>>
  /\ docRange = <<>>
  /\ attributes = <<>>
  /\ matches = <<>>
  /\ m = 0
  /\ lexed = <<>>
  /\ thrown = {}
  /\ currentClassList = <<>>
  /\ classLists = <<>>
  /\ result = <<>>

LocatorsIdle ==
  /\ semicolonless = FALSE
  /\ path = <<>>
  /\ quotesBefore = <<>>

TokenizersIdle ==
  /\ classList = <<>>
  /\ blocklist = {}
  /\ range = [start |-> [line |-> 0, character |-> 0]]
  /\ idx = 0
  /\ searchingForStart = TRUE
  /\ globalStack = <<>>
  /\ globalStackLengths = <<>>
  /\ localStack = <<>>
  /\ classInfo = <<>>
  /\ wordIndex = 0
  /\ names = <<>>

InitHtml ==
  /\ TokenizersIdle
  /\ LocatorsIdle
  /\ \E context \in RangeContexts, shape \in HtmlShapes,
        value \in Strings(HtmlValueChars, MaxValue) :
       /\ text = context.lead \o shape.attr \o value \o shape.tail
       /\ docRange = context.range
  /\ attributes = << <<"c">> >>
  /\ matches = MatchClassAttributes(text, attributes)
  /\ m = 0
  /\ lexed = <<>>
  /\ thrown = {}
  /\ currentClassList = <<>>
  /\ classLists = <<>>
  /\ result = <<>>
  /\ pc = IF matches = <<>> THEN "returned" ELSE "lex"

NextHtml ==
  \/ LexClassListToken
  \/ LexOtherToken
  \/ LexEnd
  \/ LexThrow
  \/ PushSpans

SpecHtml == InitHtml /\ [][NextHtml]_vars

---------------------------------------------------------------------------
(* findClassListsInCssRange *)

ApplyLiteral == <<"@", "a", "p", "p", "l", "y">>

ImportantLiteral == <<"!", "i", "m", "p", "o", "r", "t", "a", "n", "t">>

\* the characters the classList group may not hold: [^}\r\n] in the pattern
\* of line 221, [^;}] in that of line 222
ClassListStops(semi) == IF semi THEN {"}", "\r", "\n"} ELSE {";", "}"}

\* where the end of the pattern stops when it matches at index i, else -1:
\* (?:\r|\n|}|$) in the pattern of line 221, \s*[;}] in that of line 222
TerminatorEnd(s, i, semi) ==
  IF semi
  THEN IF i = Len(s) THEN i
       ELSE IF At(s, i) \in {"\r", "\n", "}"} THEN i + 1
       ELSE -1
  ELSE LET t == i + RunLength(SubSeq(s, i + 1, Len(s)), RegexWhitespace, TRUE)
       IN  IF t < Len(s) /\ At(s, t) \in {";", "}"} THEN t + 1 ELSE -1

\* where (?<important>\s*!important) stops when it matches at index i, else -1
ImportantEnd(s, i) ==
  LET b == i + RunLength(SubSeq(s, i + 1, Len(s)), RegexWhitespace, TRUE)
  IN  IF Substring(s, b, b + Len(ImportantLiteral)) = ImportantLiteral
      THEN b + Len(ImportantLiteral)
      ELSE -1

\* what follows the classList group when it ends at index i: the important
\* group is tried first, then the pattern without it; <<>> when neither
\* matches
AfterClassList(s, i, semi) ==
  IF ImportantEnd(s, i) >= 0 /\ TerminatorEnd(s, ImportantEnd(s, i), semi) >= 0
  THEN << [important |-> TRUE,
           end       |-> TerminatorEnd(s, ImportantEnd(s, i), semi)] >>
  ELSE IF TerminatorEnd(s, i, semi) >= 0
  THEN << [important |-> FALSE, end |-> TerminatorEnd(s, i, semi)] >>
  ELSE <<>>

\* the lengths the classList group can have when it starts at index i
ClassListLengths(s, i, semi) ==
  { n \in 1..(Len(s) - i) :
      /\ \A k \in 0..(n - 1) : At(s, i + k) \notin ClassListStops(semi)
      /\ AfterClassList(s, i + n, semi) # <<>> }

\* the match of the pattern at index i, <<>> for none: (@apply\s+) takes the
\* most whitespace that leaves a match, the lazy classList group the fewest
\* characters
MatchApplyAt(s, i, semi) ==
  LET a      == i + Len(ApplyLiteral)
      run    == IF Substring(s, i, a) = ApplyLiteral
                THEN RunLength(SubSeq(s, a + 1, Len(s)), RegexWhitespace, TRUE)
                ELSE 0
      widths == { w \in 1..run : ClassListLengths(s, a + w, semi) # {} }
  IN  IF widths = {} THEN <<>>
      ELSE LET w  == CHOOSE w \in widths : \A v \in widths : v <= w
               ns == ClassListLengths(s, a + w, semi)
               n  == CHOOSE n \in ns : \A k \in ns : n <= k
               after == AfterClassList(s, a + w + n, semi)[1]
           IN  << [index     |-> i,
                   lead      |-> Len(ApplyLiteral) + w,
                   classList |-> Substring(s, a + w, a + w + n),
                   important |-> after.important,
                   length    |-> after.end - i] >>

\* findAll(regex, text)
RECURSIVE FindAllApply(_, _, _)
FindAllApply(s, semi, from) ==
  IF from >= Len(s) THEN <<>>
  ELSE IF MatchApplyAt(s, from, semi) = <<>> THEN FindAllApply(s, semi, from + 1)
  ELSE LET found == MatchApplyAt(s, from, semi)
       IN  found \o FindAllApply(s, semi, from + found[1].length)

\* range ? range.start : { line: 0, character: 0 }
globalStart ==
  IF docRange = <<>> THEN [line |-> 0, character |-> 0] ELSE docRange[1].start

\* lines 227-242: the class list of one match
CssClassList(found) ==
  LET start == IndexToPosition(text, found.index + found.lead)
      end   == IndexToPosition(text,
                 found.index + found.lead + Len(found.classList))
  IN  [classList |-> found.classList,
       important |-> found.important,
       range     |-> LiftRange(globalStart, start, end)]

\* the callback of matches.map for the next match
MapCssMatch ==
  /\ pc = "css" /\ m < Len(matches)
  /\ result' = Append(result, CssClassList(match))
  /\ m' = m + 1
  /\ UNCHANGED <<pc, tokVars, locVars, text, docRange, attributes, matches, lexed,
                 thrown, currentClassList, classLists>>

\* matches.map has gone through every match
CssReturn ==
  /\ pc = "css" /\ m = Len(matches)
  /\ pc' = "returned"
  /\ UNCHANGED <<tokVars, htmlVars, locVars>>

CssChars == {"a", " ", "\n", ";"}

\* rules with an important flag, with a closing brace, with two @apply
CssExamples ==
  { <<" ", "a", " ">> \o ImportantLiteral \o <<";">>,
    <<" ", "a", "\n", "a">> \o ImportantLiteral \o <<"}">>,
    <<" ", "a", ";", "\n">> \o ApplyLiteral \o <<" ", "a", "\n", " ", "a", "}">> }

InitCss ==
  /\ TokenizersIdle
  /\ \E context \in RangeContexts :
       /\ \/ \E body \in Strings(CssChars, MaxBody) :
               text = context.lead \o ApplyLiteral \o <<" ">> \o body
          \/ \E body \in CssExamples :
               text = context.lead \o ApplyLiteral \o body
       /\ docRange = context.range
  /\ semicolonless \in BOOLEAN
  /\ matches = FindAllApply(text, semicolonless, 0)
  /\ attributes = <<>>
  /\ m = 0
  /\ lexed = <<>>
  /\ thrown = {}
  /\ currentClassList = <<>>
  /\ classLists = <<>>
  /\ result = <<>>
  /\ path = <<>>
  /\ quotesBefore = <<>>
  /\ pc = "css"

NextCss ==
  \/ MapCssMatch
  \/ CssReturn

SpecCss == InitCss /\ [][NextCss]_vars

---------------------------------------------------------------------------
(* getFirstCommaIndex and findHelperFunctionsInRange *)

Quotes == {"'", "\""}

\* the loop of getFirstCommaIndex at index i with quoteChar as <<>>
\* (undefined) or <<char>>: <<index>>, or <<>> for null
RECURSIVE FirstCommaFrom(_, _, _)
FirstCommaFrom(str, i, quoteChar) ==
  IF i >= Len(str) THEN <<>>
  ELSE LET char == At(str, i)
       IN  IF char = "," /\ quoteChar = <<>> THEN <<i>>
           ELSE IF quoteChar = <<>> /\ char \in Quotes
           THEN FirstCommaFrom(str, i + 1, <<char>>)
           ELSE IF <<char>> = quoteChar
           THEN FirstCommaFrom(str, i + 1, <<>>)
           ELSE FirstCommaFrom(str, i + 1, quoteChar)

getFirstCommaIndex(str) == FirstCommaFrom(str, 0, <<>>)

\* s without the trailing characters that are in S
WithoutTrailing(s, S) ==
  SubSeq(s, 1, Len(s) - RunLength(Reverse(s), S, TRUE))

\* String.prototype.trimEnd
TrimEnd(s) == WithoutTrailing(s, RegexWhitespace)

\* the class [\s:;/*(){}] of the prefix group
HelperPrefixes == RegexWhitespace \cup {":", ";", "/", "*", "(", ")", "{", "}"}

\* the alternatives of the helper group, in the order of the pattern
HelperNames ==
  << <<"c", "o", "n", "f", "i", "g">>, <<"t", "h", "e", "m", "e">> >>

\* the match of the pattern of line 469 at index i, <<>> for none: a prefix
\* character, config or theme, '(' with all the whitespace after it, then up
\* to the first ')' the lazy path group, which leaves the whitespace before
\* the ')' to \s*
MatchHelperAt(s, i) ==
  LET named == { k \in 1..Len(HelperNames) :
                   Substring(s, i + 1, i + 1 + Len(HelperNames[k])) = HelperNames[k] }
  IN  IF ~(i < Len(s) /\ At(s, i) \in HelperPrefixes) \/ named = {} THEN <<>>
      ELSE LET helper == HelperNames[CHOOSE k \in named : TRUE]
               open   == i + 1 + Len(helper)
               from   == open + 1
                           + RunLength(SubSeq(s, open + 2, Len(s)), RegexWhitespace, TRUE)
               close  == from + RunLength(SubSeq(s, from + 1, Len(s)), {")"}, FALSE)
           IN  IF ~(open < Len(s) /\ At(s, open) = "(") \/ close >= Len(s) THEN <<>>
               ELSE << [index       |-> i,
                        prefix      |-> << At(s, i) >>,
                        helper      |-> helper,
                        innerPrefix |-> Substring(s, open, from),
                        path        |-> TrimEnd(Substring(s, from, close)),
                        length      |-> close + 1 - i] >>

\* findAll(/.../g, text)
RECURSIVE FindAllHelpers(_, _)
FindAllHelpers(s, from) ==
  IF from >= Len(s) THEN <<>>
  ELSE IF MatchHelperAt(s, from) = <<>> THEN FindAllHelpers(s, from + 1)
  ELSE LET found == MatchHelperAt(s, from)
       IN  found \o FindAllHelpers(s, from + found[1].length)

\* lines 474-479: the path up to the first comma outside quotes
SplitAtComma ==
  /\ pc = "comma"
  /\ LET commaIndex == getFirstCommaIndex(match.path)
     IN  path' = IF commaIndex # <<>>
                 THEN TrimEnd(Substring(match.path, 0, commaIndex[1]))
                 ELSE match.path
  /\ quotesBefore' = <<>>
  /\ pc' = "quotes"
  /\ UNCHANGED <<tokVars, htmlVars, semicolonless>>

\* lines 480-483: the quotes at the end go, then those at the start, which
\* quotesBefore keeps
StripQuotes ==
  /\ pc = "quotes"
  /\ LET open == WithoutTrailing(path, Quotes)
         q    == RunLength(open, Quotes, TRUE)
     IN  /\ quotesBefore' = SubSeq(open, 1, q)
         /\ path' = SubSeq(open, q + 1, Len(open))
  /\ pc' = "modifier"
  /\ UNCHANGED <<tokVars, htmlVars, semicolonless>>

\* whether [^\[]*\] matches at the start of rest: a ']' with no '[' before it
ClosesBracket(rest) ==
  \E j \in 1..RunLength(rest, {"["}, FALSE) : rest[j] = "]"

\* path.match(/^([^\s]+)(?![^\[]*\])(?:\s*\/\s*([^\/\s]+))$/): <<matches[1]>>,
\* or <<>> for null.  The first group ends at k when it holds no whitespace,
\* no bracket closes after it, and what follows is whitespace, '/',
\* whitespace and a last group without '/' and whitespace up to the end.
ModifierMatch(p) ==
  LET ends == { k \in 1..Len(p) :
                  /\ \A j \in 1..k : p[j] \notin RegexWhitespace
                  /\ ~ClosesBracket(SubSeq(p, k + 1, Len(p)))
                  /\ LET slash == k + RunLength(SubSeq(p, k + 1, Len(p)),
                                                RegexWhitespace, TRUE)
                         mod   == slash + 1
                                    + RunLength(SubSeq(p, slash + 2, Len(p)),
                                                RegexWhitespace, TRUE)
                     IN  /\ slash < Len(p)
                         /\ At(p, slash) = "/"
                         /\ mod < Len(p)
                         /\ \A j \in (mod + 1)..Len(p) :
                              p[j] \notin RegexWhitespace \cup {"/"} }
  IN  IF ends = {} THEN <<>>
      ELSE << SubSeq(p, 1, CHOOSE k \in ends : \A j \in ends : j <= k) >>

\* lines 484-488: the modifier goes, then path.replace(/['"]*\s*$/, '')
StripModifier ==
  /\ pc = "modifier"
  /\ LET found == ModifierMatch(path)
         first == IF found # <<>> THEN found[1] ELSE path
     IN  path' = WithoutTrailing(TrimEnd(first), Quotes)
  /\ pc' = "ranges"
  /\ UNCHANGED <<tokVars, htmlVars, semicolonless, quotesBefore>>

\* lines 490-494
startIndex ==
  match.index + Len(match.prefix) + Len(match.helper) + Len(match.innerPrefix)

\* resolveRange(range, relativeTo) is not part of find.ts.  By the
\* specification (4.1) a local range is composed into the frame of the
\* enclosing range: the enclosing start line is added to a line, the
\* enclosing start character to a character on line 0.
ResolveRange(local, relativeTo) ==
  LET origin == IF relativeTo = <<>> THEN [line |-> 0, character |-> 0]
                ELSE relativeTo[1].start
      Lift(pos) == [line      |-> origin.line + pos.line,
                    character |-> (IF pos.line = 0 THEN origin.character ELSE 0)
                                    + pos.character]
  IN  [start |-> Lift(local.start), end |-> Lift(local.end)]

\* lines 496-515: the helper function of one match
HelperFunction ==
  [helper |-> IF match.helper = HelperNames[2] THEN "theme" ELSE "config",
   path   |-> path,
   ranges |->
     [full |-> ResolveRange(
                 [start |-> IndexToPosition(text, startIndex),
                  end   |-> IndexToPosition(text, startIndex + Len(match.path))],
                 docRange),
      path |-> ResolveRange(
                 [start |-> IndexToPosition(text, startIndex + Len(quotesBefore)),
                  end   |-> IndexToPosition(text,
                              startIndex + Len(quotesBefore) + Len(path))],
                 docRange)]]

\* the callback of matches.map returns, and map goes on to the next match
PushHelper ==
  /\ pc = "ranges"
  /\ result' = Append(result, HelperFunction)
  /\ IF m + 1 < Len(matches)
     THEN pc' = "comma" /\ m' = m + 1
     ELSE pc' = "returned" /\ m' = m
  /\ path' = <<>>
  /\ quotesBefore' = <<>>
  /\ UNCHANGED <<tokVars, semicolonless, text, docRange, attributes, matches, lexed,
                 thrown, currentClassList, classLists>>

HelperChars == {"a", "'", "/", ",", " "}

\* arguments made of a quoted path, a modifier or none, a fallback or none
HelperForms ==
  [name     : { <<"a">>, <<"a", ".", "b">>, <<"a", "[", "b", "]">> },
   quote    : Quotes,
   modifier : { <<>>, <<" ", "/", " ", "5">>, <<"/", "5">> },
   fallback : { <<>>, <<",", " ", "b">>, <<",", "'", "b", ",", "'">> }]

\* the first argument of that form
FirstArgumentOf(form) ==
  << form.quote >> \o form.name \o << form.quote >> \o form.modifier

ArgumentOf(form) == FirstArgumentOf(form) \o form.fallback

\* what stands around the argument: theme( ) after a space, config( ) with
\* whitespace inside the parentheses after a ':', and two helpers in one text
HelperShapes ==
  { [head |-> <<" ">> \o HelperNames[2] \o <<"(">>, tail |-> <<")">>],
    [head |-> <<":">> \o HelperNames[1] \o <<"(", " ">>, tail |-> <<" ", ")">>],
    [head |-> <<" ">> \o HelperNames[2] \o <<"(">>,
     tail |-> <<")", " ">> \o HelperNames[1] \o <<"(", "b", ")">>] }

InitHelper ==
  /\ TokenizersIdle
  /\ \E context \in RangeContexts, shape \in HelperShapes :
       /\ \/ \E arg \in Strings(HelperChars, MaxArg) :
               text = context.lead \o shape.head \o arg \o shape.tail
          \/ \E form \in HelperForms :
               text = context.lead \o shape.head \o ArgumentOf(form) \o shape.tail
       /\ docRange = context.range
  /\ matches = FindAllHelpers(text, 0)
  /\ semicolonless = FALSE
  /\ attributes = <<>>
  /\ m = 0
  /\ lexed = <<>>
  /\ thrown = {}
  /\ currentClassList = <<>>
  /\ classLists = <<>>
  /\ result = <<>>
  /\ path = <<>>
  /\ quotesBefore = <<>>
  /\ pc = IF matches = <<>> THEN "returned" ELSE "comma"

NextHelper ==
  \/ SplitAtComma
  \/ StripQuotes
  \/ StripModifier
  \/ PushHelper

SpecHelper == InitHelper /\ [][NextHelper]_vars

---------------------------------------------------------------------------
(* The tokenizers' inputs *)

Chars == {"a", "b", " ", "\n", ":", "(", ")"}

\* longer class lists, among them those of the specification's examples with
\* one-letter names: hover:(bg-red-500 focus:text-white), lists with a group
\* closed in the middle, a group of two prefixes, a ')' too many, a variant
\* chain on a second line, a blocklisted name in the middle, a separator that
\* only \s knows
Examples ==
  { <<"a", ":", "(", "b", " ", "a", ":", "b", ")">>,
    <<"a", ":", "(", "b", ")", " ", "b">>,
    <<"a", ":", "(", "b", ":", "(", "a", ")", "b", ")", "a">>,
    <<"a", ":", "b", ":", "(", "a", ")", "b">>,
    <<"a", ":", "(", "b", ")", ")", "b">>,
    <<"b", "\n", "a", ":", "b", " ", "a">>,
    <<"b", " ", "a", " ", "b">>,
    <<"a", "u2001", "b">> }

Blocklists == { {}, { <<"a">> } }

Ranges == { [start |-> [line |-> 0, character |-> 0]],
            [start |-> [line |-> 2, character |-> 3]] }

Init ==
  /\ pc = "scan"
  /\ classList \in Strings(Chars, MaxLen) \cup Examples
  /\ blocklist \in Blocklists
  /\ range \in Ranges
  /\ idx = 0
  /\ searchingForStart = TRUE
  /\ globalStack = <<>>
  /\ globalStackLengths = <<>>
  /\ localStack = <<>>
  /\ classInfo = <<>>
  /\ wordIndex = 0
  /\ names = <<>>
  /\ HtmlIdle
  /\ LocatorsIdle

Next ==
  \/ StepSeparator
  \/ StepColon
  \/ StepOpenGroup
  \/ StepCloseGroup
  \/ StepWordStart
  \/ StepContinue
  \/ ScanEnd
  \/ SimpleTokenize

Spec == Init /\ [][Next]_vars

---------------------------------------------------------------------------
(* What the class-list text says, read without running the scanner *)

GroupChars == {"(", ")"}

\* whether the scanner is between words when it reaches index p: at the
\* start, after a separator or a parenthesis, and after a ':' that ended a
\* word (a ':' met between words opens a word instead)
RECURSIVE BetweenWords(_, _)
BetweenWords(cl, p) ==
  IF p = 0 THEN TRUE
  ELSE LET c == At(cl, p - 1)
       IN  \/ c \in SEPARATOR_CHARS \cup GroupChars
           \/ c = ":" /\ ~BetweenWords(cl, p - 1)

\* where the word that is open just before index p began (p > 0)
RECURSIVE WordOpenedAt(_, _)
WordOpenedAt(cl, p) ==
  IF BetweenWords(cl, p - 1) THEN p - 1 ELSE WordOpenedAt(cl, p - 1)

\* the ':'-chained prefixes written directly before index p: each a word
\* ended by ':' with nothing but such words between it and p.  A separator
\* or a parenthesis before p starts a fresh chain.
RECURSIVE ChainBefore(_, _)
ChainBefore(cl, p) ==
  IF p = 0 THEN <<>>
  ELSE IF ~BetweenWords(cl, p) THEN ChainBefore(cl, WordOpenedAt(cl, p))
  ELSE IF At(cl, p - 1) = ":"
       THEN LET q == WordOpenedAt(cl, p - 1)
            IN  Append(ChainBefore(cl, q), Substring(cl, q, p - 1))
  ELSE <<>>

\* the indexes of the '(' still open at index p, outermost first; a ')'
\* closes the innermost one
RECURSIVE OpenGroups(_, _)
OpenGroups(cl, p) ==
  IF p = 0 THEN <<>>
  ELSE LET before == OpenGroups(cl, p - 1)
           c      == At(cl, p - 1)
       IN  IF c = "(" THEN Append(before, p - 1)
           ELSE IF c = ")" THEN SubSeq(before, 1, Len(before) - 1)
           ELSE before

\* the variants of a class name that starts at index w: the chains in front
\* of the open groups, then its own chain
VariantsInText(cl, w) ==
  LET groups == OpenGroups(cl, w)
  IN  Flatten([k \in 1..Len(groups) |-> ChainBefore(cl, groups[k])])
        \o ChainBefore(cl, w)

\* the end of the word that starts at index i: the next separator, ':' or
\* parenthesis, or the end of the text
RECURSIVE WordEnd(_, _)
WordEnd(cl, i) ==
  IF i >= Len(cl) \/ At(cl, i) \in SEPARATOR_CHARS \cup GroupChars \cup {":"}
  THEN i
  ELSE WordEnd(cl, i + 1)

\* a word starts at index i: the scanner is between words there and the
\* character is neither a separator nor a parenthesis
WordStartsAt(cl, i) ==
  /\ i < Len(cl)
  /\ BetweenWords(cl, i)
  /\ At(cl, i) \notin SEPARATOR_CHARS \cup GroupChars

\* a class name lies at [i, j): a word that a separator, a ')' or the end of
\* the text ends (a word ended by ':' is a variant, one ended by '(' is
\* dropped)
IsClassNameAt(cl, i, j) ==
  /\ WordStartsAt(cl, i)
  /\ j = WordEnd(cl, i + 1)
  /\ (j = Len(cl) \/ At(cl, j) \in SEPARATOR_CHARS \cup {")"})

ClassNamesInText(cl) ==
  { Substring(cl, i, j) : <<i, j>> \in
      { ij \in (0..Len(cl)) \X (0..Len(cl)) : IsClassNameAt(cl, ij[1], ij[2]) } }

\* the words that /(\s+)/ separates: the maximal runs without whitespace,
\* and the empty word of a text that is empty or starts or ends with
\* whitespace
WordsInText(cl) ==
  { Substring(cl, ij[1], ij[2]) : ij \in
      { ij \in (0..Len(cl)) \X (0..Len(cl)) :
          /\ ij[1] < ij[2]
          /\ \A k \in ij[1]..(ij[2] - 1) : At(cl, k) \notin RegexWhitespace
          /\ (ij[1] = 0 \/ At(cl, ij[1] - 1) \in RegexWhitespace)
          /\ (ij[2] = Len(cl) \/ At(cl, ij[2]) \in RegexWhitespace) } }
  \cup (IF \/ cl = <<>>
           \/ At(cl, 0) \in RegexWhitespace
           \/ At(cl, Len(cl) - 1) \in RegexWhitespace
        THEN { <<>> } ELSE {})

\* the offset of a position: the start of its line plus its character
LineStart(s, line) ==
  IF line = 0 THEN 0
  ELSE IF \E n \in 1..Len(s) : At(s, n - 1) = "\n" /\ NewlinesBefore(s, n) = line
       THEN CHOOSE n \in 1..Len(s) :
              At(s, n - 1) = "\n" /\ NewlinesBefore(s, n) = line
       ELSE Len(s)

OffsetAt(s, pos) == LineStart(s, pos.line) + pos.character

\* the text between the two positions of a range
TextIn(s, rng) == Substring(s, OffsetAt(s, rng.start), OffsetAt(s, rng.end))

Tokens(seq) == { seq[k] : k \in 1..Len(seq) }

ClassNameSet(seq) == { seq[k].className : k \in 1..Len(seq) }

IsSuffix(suffix, s) ==
  /\ Len(suffix) <= Len(s)
  /\ SubSeq(s, Len(s) - Len(suffix) + 1, Len(s)) = suffix

---------------------------------------------------------------------------
(* Claims about the tokenizers *)

\* C1 (as stated): for every token of either tokenizer, the class-list text
\* between relativeRange.start and relativeRange.end is the token's
\* className, also for a token with ':'-chained variants.
C1_RoundTrip ==
  \A t \in Tokens(classInfo) \cup Tokens(names) :
    TextIn(classList, t.relativeRange) = t.className

\* C1 (amended): every token of the simple tokenizer has exactly its
\* className between its relativeRange positions.  A token the variant-aware
\* tokenizer pushes has a text that ends with className and is longer than it
\* by the length of every variant pending on the local stack plus one
\* character each; so it is className exactly when no ':' variant is pending.
C1_RoundTripAmended ==
  [][ /\ \A t \in Tokens(names') : TextIn(classList, t.relativeRange) = t.className
      /\ classInfo' # classInfo =>
           LET t    == classInfo'[Len(classInfo')]
               covered == TextIn(classList, t.relativeRange)
           IN  /\ IsSuffix(t.className, covered)
               /\ Len(covered) = Len(t.className)
                    + SumSeq([k \in 1..Len(localStack) |-> Len(localStack[k]) + 1])
               /\ localStack = <<>> => covered = t.className
    ]_vars

\* C1 witness: both tokenizers have run on a multi-line class list; the
\* variant-aware one returned a token pushed with pending variants (its text
\* is longer than its name) and one pushed without.
C1_Witness ==
  /\ pc = "done"
  /\ names # <<>>
  /\ "\n" \in { classList[k] : k \in 1..Len(classList) }
  /\ \E t \in Tokens(classInfo) :
       Len(TextIn(classList, t.relativeRange)) > Len(t.className)
  /\ \E t \in Tokens(classInfo) :
       TextIn(classList, t.relativeRange) = t.className /\ t.className # <<>>

\* C2: every token of the variant-aware tokenizer carries the prefixes in
\* front of each '(' still open at its class name, outermost first, followed
\* by its own ':'-chained prefixes.
C2_VariantsOfToken ==
  \A t \in Tokens(classInfo) :
    t.variants =
      VariantsInText(classList,
        OffsetAt(classList, t.relativeRange.end) - Len(t.className))

\* C3: no returned token has a blocklisted className, and once both
\* tokenizers are done each returned exactly the class names of the text that
\* are not blocklisted.
C3_Blocklist ==
  /\ \A t \in Tokens(classInfo) \cup Tokens(names) : t.className \notin blocklist
  /\ pc = "done" =>
       /\ ClassNameSet(classInfo) = ClassNamesInText(classList) \ blocklist
       /\ ClassNameSet(names) = WordsInText(classList) \ blocklist

\* C3 witness: a blocklisted class name stands between two class names that
\* both tokenizers returned.
C3_Witness ==
  /\ pc = "done"
  /\ \E i, j \in 0..Len(classList) :
       /\ IsClassNameAt(classList, i, j)
       /\ Substring(classList, i, j) \in blocklist
       /\ \A seq \in {classInfo, names} :
            \E t1, t2 \in Tokens(seq) :
              /\ OffsetAt(classList, t1.relativeRange.end) <= i
              /\ OffsetAt(classList, t2.relativeRange.start) >= j
              /\ t1.className # <<>> /\ t2.className # <<>>

\* C5: on a class list without '(' , ')' and ':' the two tokenizers return
\* the same set of class names.
C5_SameClassNames ==
  (/\ pc = "done"
   /\ \A k \in 1..Len(classList) : classList[k] \notin {"(", ")", ":"})
  => ClassNameSet(classInfo) = ClassNameSet(names)

\* C9: the local stack holds only variants pushed since the most recent
\* separator or group boundary: right after the scanner has passed a
\* separator or a parenthesis the local stack is empty.
C9_LocalStackFresh ==
  (/\ pc = "scan" /\ idx > 0
   /\ At(classList, idx - 1) \in SEPARATOR_CHARS \cup GroupChars)
  => localStack = <<>>

\* C10: at every step of the scan the global stack is as long as the sum of
\* the recorded push counts, and no ')' throws.
C10_StackLengths ==
  /\ pc # "threw"
  /\ Len(globalStack) = SumSeq(globalStackLengths)

\* C10 witness: the scanner has passed a ')' that closed a group with a
\* prefix, and later a ')' with no group open.
C10_Witness ==
  /\ pc = "scan"
  /\ \E p, q \in 1..idx :
       /\ p < q
       /\ At(classList, p - 1) = ")" /\ At(classList, q - 1) = ")"
       /\ OpenGroups(classList, p - 1) # <<>>
       /\ ChainBefore(classList, OpenGroups(classList, p - 1)[1]) # <<>>
       /\ OpenGroups(classList, q - 1) = <<>>

---------------------------------------------------------------------------
(* Claims about the markup locator *)

\* the position reached by walking s line- and column-wise from pos
RECURSIVE Walk(_, _)
Walk(pos, s) ==
  IF s = <<>> THEN pos
  ELSE Walk(IF Head(s) = "\n"
            THEN [line |-> pos.line + 1, character |-> 0]
            ELSE [line |-> pos.line, character |-> pos.character + 1],
            Tail(s))

\* s without its leading and trailing whitespace
Trimmed(s) ==
  LET lead  == RunLength(s, RegexWhitespace, TRUE)
      trail == RunLength(Reverse(s), RegexWhitespace, TRUE)
  IN  IF lead = Len(s) THEN <<>> ELSE SubSeq(s, lead + 1, Len(s) - trail)

\* the maximal runs of tokens taken as class list among the tokens yielded
\* for the current attribute, in order, as [from, to) offsets in subtext
RECURSIVE RunsFrom(_, _)
RunsFrom(taken, from) ==
  IF from >= Len(taken) THEN <<>>
  ELSE IF ~At(taken, from) THEN RunsFrom(taken, from + 1)
  ELSE LET n == RunLength(SubSeq(taken, from + 1, Len(taken)), {TRUE}, TRUE)
       IN  << [from |-> from, to |-> from + n] >> \o RunsFrom(taken, from + n)

Runs == RunsFrom(lexed, 0)

RunText(run) == Substring(subtext, run.from, run.to)

RECURSIVE SelectRuns(_, _)
SelectRuns(runs, blank) ==
  IF runs = <<>> THEN <<>>
  ELSE (IF IsBlank(RunText(Head(runs))) = blank THEN << Head(runs) >> ELSE <<>>)
         \o SelectRuns(Tail(runs), blank)

\* the runs that hold more than whitespace
RunsWithContent == SelectRuns(Runs, FALSE)

\* the offsets in text of the first and last character of a run that are no
\* whitespace, as [from, to)
TrimmedExtent(run) ==
  [from |-> ValueIndex + run.from + RunLength(RunText(run), RegexWhitespace, TRUE),
   to   |-> ValueIndex + run.to
              - RunLength(Reverse(RunText(run)), RegexWhitespace, TRUE)]

\* the spans the step from pc = "spans" appended to result
AppendedSpans == SubSeq(result', Len(result) + 1, Len(result'))

\* the forEach goes on: to the next match when there is one, else it returns
GoesOn ==
  IF m + 1 < Len(matches) THEN pc' = "lex" /\ m' = m + 1 ELSE pc' = "returned"

\* each position on its own: the line added to the enclosing start line, the
\* enclosing start character added to a position on line 0 only
ComposePosition(enclosingStart, pos) ==
  [line      |-> enclosingStart.line + pos.line,
   character |-> (IF pos.line = 0 THEN enclosingStart.character ELSE 0)
                   + pos.character]

\* C4: every span of the markup locator has a text without leading and
\* trailing whitespace, and walking that text from range.start arrives at
\* range.end.
C4_TrimmedSpan ==
  \A span \in Tokens(result) :
    /\ span.classList = Trimmed(span.classList)
    /\ Walk(span.range.start, span.classList) = span.range.end

\* C6: where findClassListsInCssRange lifts the local range of a class list
\* into the frame of the enclosing range, each position is composed on its
\* own: the range of the class list is the composition of its local start
\* and the composition of its local end.
C6_EachPositionLifted ==
  [][ (pc = "css" /\ m < Len(matches)) =>
        LET found == result'[Len(result')]
            from  == match.index + match.lead
        IN  found.range =
              [start |-> ComposePosition(globalStart,
                           IndexToPosition(text, from)),
               end   |-> ComposePosition(globalStart,
                           IndexToPosition(text, from + Len(match.classList)))]
    ]_vars

\* C8 (as stated): when the lexer threw on an attribute, every run of
\* class-list tokens it had yielded before, closed or still open, becomes a
\* span of that attribute, and the forEach goes on with the next match.
C8_EveryRunEmitted ==
  [][ (pc = "spans" /\ m \in thrown) =>
        /\ Len(AppendedSpans) = Len(Runs)
        /\ GoesOn
    ]_vars

\* C8 (amended): when the lexer threw on an attribute, every run of
\* class-list tokens it had yielded before, closed or still open, that holds
\* more than whitespace becomes one span of that attribute, in order, placed
\* at the run's extent without its leading and trailing whitespace and
\* starting with its trimmed text; a run of whitespace alone gives no span.
\* No error leaves the callback: the forEach goes on with the next match, and
\* it returns only when every match has been scanned.
C8_RunsWithContentEmitted ==
  /\ [](pc = "returned" /\ matches # <<>> => m = Len(matches) - 1)
  /\ [][ (pc = "spans" /\ m \in thrown) =>
           /\ Len(AppendedSpans) = Len(RunsWithContent)
           /\ \A k \in 1..Len(AppendedSpans) :
                LET run    == RunsWithContent[k]
                    extent == TrimmedExtent(run)
                    span   == AppendedSpans[k]
                IN  /\ span.range =
                         LiftRange(RangeStartOrZero,
                                   IndexToPosition(text, extent.from),
                                   IndexToPosition(text, extent.to))
                    /\ Substring(span.classList, 0, Len(Trimmed(RunText(run))))
                         = Trimmed(RunText(run))
           /\ GoesOn
       ]_vars

\* C8 witness: the lexer threw on the first of two attributes after a closed
\* run and with a run still open; both runs and the class list of the second
\* attribute were returned.
C8_Witness ==
  /\ pc = "returned"
  /\ Len(matches) = 2
  /\ 0 \in thrown
  /\ Len(result) >= 3
  /\ result[Len(result)].classList = <<"b">>

---------------------------------------------------------------------------
(* Claims about the helper-function locator *)

\* the index in text at which the argument of the k-th helper function starts
ArgumentStart(k) ==
  matches[k].index + Len(matches[k].prefix) + Len(matches[k].helper)
    + Len(matches[k].innerPrefix)

\* the range of the characters [from, to) of text, in the frame of the range
\* argument
RangeOfText(from, to) ==
  [start |-> ComposePosition(globalStart, IndexToPosition(text, from)),
   end   |-> ComposePosition(globalStart, IndexToPosition(text, to))]

\* C7: for a helper function whose argument is a quoted path, a modifier or
\* none, and a fallback or none, the path is the quoted path without its
\* quotes and without the modifier, and the full range covers the first
\* argument, modifier included: the fallback is in neither.
C7_PathAndFullRange ==
  \A k \in 1..Len(result), form \in HelperForms :
    matches[k].path = ArgumentOf(form) =>
      /\ result[k].path = form.name
      /\ result[k].ranges.full =
           RangeOfText(ArgumentStart(k),
                       ArgumentStart(k) + Len(FirstArgumentOf(form)))

===========================================================================
